---------------------------- MODULE Spec2Model ----------------------------
(***************************************************************************)
(* A model of prestic (src/prestic/prestic.py): the profile model, the     *)
(* schedule calculator Profile.find_next_run, the state store, the task    *)
(* runner ServiceHandler.run_task and the scheduler loop service_loop,     *)
(* together with the tray-icon callbacks (run now, reload, quit) that run  *)
(* on another thread, and the command builder Profile.get_command.         *)
(*                                                                         *)
(* Time.  A timestamp is a number of seconds of naive local time since the *)
(* model's epoch, Monday 2024-01-01 00:00:00.  Python's datetime carries   *)
(* microseconds as well; find_next_run copies the microseconds of          *)
(* from_time into its result (replace() leaves them alone), so they cancel *)
(* in every comparison it makes and are not modelled.  None is the null    *)
(* timestamp.                                                              *)
(***************************************************************************)
EXTENDS Integers, Sequences, FiniteSets, TLC

None == 0 - 1

Minute == 60 * 1
Hour == 60 * Minute
Day == 24 * Hour

\* datetime.hour, datetime.minute, datetime.weekday() and the midnight of a
\* timestamp's day.
DayIndex(t) == t \div Day
HourOf(t) == (t % Day) \div Hour
MinuteOf(t) == (t % Hour) \div Minute
Midnight(t) == t - (t % Day)
Weekday(t) == DayIndex(t) % 7

\* The calendar of 2024 (a leap year) and 2025, day 0 being Monday the 1st
\* of January 2024.
MonthLengths ==
    <<31, 29, 31, 30, 31, 30, 31, 31, 30, 31, 30, 31,
      31, 28, 31, 30, 31, 30, 31, 31, 30, 31, 30, 31>>

RECURSIVE DayOfMonthFrom(_, _)
DayOfMonthFrom(d, m) ==
    IF d < MonthLengths[m] THEN d + 1
    ELSE DayOfMonthFrom(d - MonthLengths[m], (m % Len(MonthLengths)) + 1)

\* datetime.day
DayOfMonth(t) == DayOfMonthFrom(DayIndex(t), 1)

(***************************************************************************)
(* Schedule specs.  A schedule string is modelled by the token list that   *)
(* schedule.lower().replace(",", " ").split() yields; the empty list is    *)
(* the empty or absent schedule.  A token is a record [kind, a, b]:        *)
(*   monthly | weekly | wday (a = index in mon..sun) |                     *)
(*   time (a = hour, or Star for "*"; b = minute) | other (ignored).       *)
(***************************************************************************)
Star == 0 - 2

TokMonthly == [kind |-> "monthly", a |-> 0, b |-> 0]
TokWeekly == [kind |-> "weekly", a |-> 0, b |-> 0]
TokWday(d) == [kind |-> "wday", a |-> d, b |-> 0]
TokTime(h, m) == [kind |-> "time", a |-> h, b |-> m]
TokOther == [kind |-> "other", a |-> 0, b |-> 0]

\* Lines 154-155: the candidate sets before any token is read, and the
\* time of day of next_run (midnight, line 152).
ParseInit == [m_days |-> 1..31, w_days |-> {}, tod |-> 0, err |-> FALSE]

\* Lines 158-167: one token of the schedule.  datetime.replace raises
\* ValueError for an hour outside 0..23, which "*" gives at hour 23.
ParsePart(st, part, from_time) ==
    IF st.err THEN st
    ELSE IF part.kind = "monthly" THEN [st EXCEPT !.m_days = {1}]
    ELSE IF part.kind = "weekly" THEN [st EXCEPT !.w_days = {0}]
    ELSE IF part.kind = "wday" THEN [st EXCEPT !.w_days = @ \cup {part.a}]
    ELSE IF part.kind = "time" THEN
        LET hour == IF part.a = Star THEN HourOf(from_time) + 1 ELSE part.a
        IN  IF hour \in 0..23 /\ part.b \in 0..59
            THEN [st EXCEPT !.tod = hour * Hour + part.b * Minute]
            ELSE [st EXCEPT !.err = TRUE]
    ELSE st

RECURSIVE ParseSchedule(_, _, _)
ParseSchedule(st, parts, from_time) ==
    IF parts = <<>> THEN st
    ELSE ParseSchedule(ParsePart(st, Head(parts), from_time), Tail(parts), from_time)

\* Line 169: range(from_time.weekday(), from_time.weekday() + 32).
ScanDays == 32

\* The scan without the test of the weekday.
RECURSIVE ScanFromAnyWeekday(_, _, _, _, _)
ScanFromAnyWeekday(st, next_run, i, n, from_time) ==
    IF n >= ScanDays THEN None
    ELSE IF DayOfMonth(next_run) \in st.m_days /\ next_run >= from_time
         THEN next_run
         ELSE ScanFromAnyWeekday(st, next_run + Day, i + 1, n + 1, from_time)

\* The scan over one day less.
RECURSIVE ScanFromShort(_, _, _, _, _)
ScanFromShort(st, next_run, i, n, from_time) ==
    IF n >= ScanDays - 1 THEN None
    ELSE IF /\ DayOfMonth(next_run) \in st.m_days
            /\ ((i % 7) \in st.w_days \/ st.w_days = {})
            /\ next_run >= from_time
         THEN next_run
         ELSE ScanFromShort(st, next_run + Day, i + 1, n + 1, from_time)

\* Lines 169-173: the day-by-day scan; i is the loop variable, n the number
\* of iterations done.
RECURSIVE ScanFrom(_, _, _, _, _)
ScanFrom(st, next_run, i, n, from_time) ==
    IF n >= ScanDays THEN None
    ELSE IF /\ DayOfMonth(next_run) \in st.m_days
            /\ ((i % 7) \in st.w_days \/ st.w_days = {})
            /\ next_run >= from_time
         THEN next_run
         ELSE ScanFrom(st, next_run + Day, i + 1, n + 1, from_time)

\* from_time taken as it is given, without the minute added.
AdvancedNot(from_time, now) == IF from_time = None THEN now ELSE from_time

\* Line 151: from_time = (from_time or datetime.now()) + timedelta(minutes=1)
Advanced(from_time, now) == (IF from_time = None THEN now ELSE from_time) + Minute

\* Profile.find_next_run raises ValueError (lines 166-167).
find_next_run_raises(schedule, from_time, now) ==
    /\ schedule # <<>>
    /\ ParseSchedule(ParseInit, schedule, Advanced(from_time, now)).err

\* Profile.find_next_run, lines 147-175, where it does not raise.
find_next_run(schedule, from_time, now) ==
    IF schedule = <<>> THEN None
    ELSE LET ft == Advanced(from_time, now)
             st == ParseSchedule(ParseInit, schedule, ft)
         IN  ScanFrom(st, Midnight(ft) + st.tod, Weekday(ft), 0, ft)

(***************************************************************************)
(* The profile model.  A profile is a record [name, props]; props is the   *)
(* dictionary Profile._properties without its "name" entry: a function     *)
(* from the keys that are explicitly set (after the remap of               *)
(* Profile._keymap) to their values, already coerced by __setitem__:       *)
(* word lists for the list-typed keys, strings for the others.             *)
(***************************************************************************)
NoValue == "<None>"

ListKeys == {"inherit", "command", "args", "flags", "global-flags"}

\* Profile._defaults (lines 48-108), for the keys of the model.
Default(key) ==
    IF key \in ListKeys THEN <<>>
    ELSE IF key = "restic-path" THEN "restic"
    ELSE NoValue

\* Profile.is_defined, lines 138-139.
is_defined(p, key) == key \in DOMAIN p.props

\* Profile.__getitem__, lines 122-124.
Get(p, key) == IF is_defined(p, key) THEN p.props[key] ELSE Default(key)

\* Python's truth value of a property: an empty list, an empty string and
\* None are false.
Truthy(key, v) == IF key \in ListKeys THEN v # <<>> ELSE v \notin {"", NoValue}

\* The schedule property as find_next_run reads it (line 148: a false
\* schedule is no schedule), as a token list.
ScheduleOf(p) ==
    IF is_defined(p, "schedule") THEN p.props["schedule"] ELSE <<>>

\* inherit with the parent's values taking precedence.
inherit_parent_first(p, parent) ==
    [p EXCEPT !.props =
        [k \in DOMAIN p.props \cup DOMAIN parent.props |->
            IF k \in DOMAIN parent.props /\ k # "inherit"
            THEN parent.props[k] ELSE p.props[k]]]

\* Profile.inherit, lines 141-145: every key of the parent that the child
\* does not define is copied; the child's own values stay.
inherit(p, parent) ==
    [p EXCEPT !.props =
        [k \in DOMAIN p.props \cup DOMAIN parent.props |->
            IF k \in DOMAIN p.props THEN p.props[k] ELSE parent.props[k]]]

\* is_runnable with "or" read as "exactly one of".
is_runnable_exactly_one(p) ==
    /\ Truthy("command", Get(p, "command"))
    /\ (Truthy("flag.repo", Get(p, "flag.repo"))
            # Truthy("env.RESTIC_REPOSITORY_FILE", Get(p, "env.RESTIC_REPOSITORY_FILE")))

\* Profile.is_runnable, lines 184-185.
is_runnable(p) ==
    /\ Truthy("command", Get(p, "command"))
    /\ \/ Truthy("flag.repo", Get(p, "flag.repo"))
       \/ Truthy("env.RESTIC_REPOSITORY_FILE", Get(p, "env.RESTIC_REPOSITORY_FILE"))

\* self.profiles.get(parent_name), line 282: the index of the profile of
\* that name in dict order, 0 when there is none.
IndexOf(ps, name) ==
    IF \E i \in 1..Len(ps) : ps[i].name = name
    THEN CHOOSE i \in 1..Len(ps) : ps[i].name = name
    ELSE 0

\* The body of the for loop without the test of line 288: a profile inherits
\* from a parent that has not been resolved yet.
InheritStepEager(r, i) ==
    LET profile == r.ps[i]
        pending == Get(profile, "inherit")
    IN  IF r.error # "" \/ pending = <<>> THEN r
        ELSE LET parent_name == Head(pending)
                 j == IndexOf(r.ps, parent_name)
             IN  IF j = 0
                    THEN [r EXCEPT !.inherits = TRUE, !.error = "non-existing parent"]
                 ELSE IF parent_name = profile.name
                    THEN [r EXCEPT !.inherits = TRUE, !.error = "inherits itself"]
                 ELSE LET q == inherit(profile, r.ps[j])
                      IN  [r EXCEPT !.inherits = TRUE,
                                    !.ps[i] = [q EXCEPT !.props["inherit"] = Tail(pending)]]

\* Lines 276-292: the body of the for loop of one resolution pass, for the
\* profile at index i.  r is [ps, inherits, error].
InheritStep(r, i) ==
    LET profile == r.ps[i]
        pending == Get(profile, "inherit")
    IN  IF r.error # "" \/ pending = <<>> THEN r
        ELSE LET parent_name == Head(pending)
                 j == IndexOf(r.ps, parent_name)
             IN  IF j = 0
                    THEN [r EXCEPT !.inherits = TRUE, !.error = "non-existing parent"]
                 ELSE IF parent_name = profile.name
                    THEN [r EXCEPT !.inherits = TRUE, !.error = "inherits itself"]
                 ELSE IF Get(r.ps[j], "inherit") # <<>>
                    THEN [r EXCEPT !.inherits = TRUE]
                 ELSE LET q == inherit(profile, r.ps[j])
                      IN  [r EXCEPT !.inherits = TRUE,
                                    !.ps[i] = [q EXCEPT !.props["inherit"] = Tail(pending)]]

\* Lines 274-292: one pass of the while loop over all the profiles.
RECURSIVE InheritPassFrom(_, _)
InheritPassFrom(r, i) ==
    IF i > Len(r.ps) THEN r ELSE InheritPassFrom(InheritStep(r, i), i + 1)

InheritPass(ps) == InheritPassFrom([ps |-> ps, inherits |-> FALSE, error |-> ""], 1)

\* Lines 272-292: the passes are repeated until one finds no pending
\* inherit.  (Used on configurations whose resolution ends.)
RECURSIVE ResolveInheritance(_)
ResolveInheritance(ps) ==
    LET r == InheritPass(ps)
    IN  IF r.error # "" \/ ~r.inherits THEN r ELSE ResolveInheritance(r.ps)

NotDefault(section) == section.name # "default"
IsDefault(section) == section.name = "default"

\* Lines 266-269: the profile dictionary.  The key "default" is inserted
\* first and keeps that place when the file has a section of that name,
\* whose profile then replaces the empty one; the other sections follow in
\* file order.
InitialProfiles(config) ==
    (IF \E i \in 1..Len(config) : config[i].name = "default"
     THEN SelectSeq(config, IsDefault)
     ELSE <<[name |-> "default", props |-> <<>>]>>)
        \o SelectSeq(config, NotDefault)

(***************************************************************************)
(* The bounds of the model: the instants the clock takes, the              *)
(* configuration files a (re)load may find, and the status file the        *)
(* service may find at startup.                                            *)
(***************************************************************************)
\* The service starts on Thursday 2024-01-11 at 10:00:00.
T0 == 10 * Day + 10 * Hour

\* The instants of the clock: 10:00, 11:00 and 23:10 of that day, then
\* 11:00 of the next day.
Instants ==
    <<T0,
      T0 + Hour,
      T0 + 13 * Hour + 10 * Minute,
      T0 + Day + Hour>>

MaxInstants == 3

\* The numbers of "Reload config" and of "Run Now" clicks in a behaviour.
MaxReloads == 1
MaxClicks == 1

Clock == {Instants[i] : i \in 1..MaxInstants}

\* The persisted last_run of task A at startup: none, 2 hours, 25 hours and
\* 3 days before the start.
InitialLastRuns == {None, T0 - 2 * Hour, T0 - 25 * Hour, T0 - 3 * Day}

Section(name, props) == [name |-> name, props |-> props]

\* A inherits its repository and runs daily at 11:00; B has no schedule.
Config1 ==
    <<Section("base", "flag.repo" :> "r1"),
      Section("A", ("inherit" :> <<"base">>) @@ ("command" :> <<"backup">>)
                   @@ ("schedule" :> <<TokTime(11, 0)>>)),
      Section("B", ("command" :> <<"check">>)
                   @@ ("env.RESTIC_REPOSITORY_FILE" :> "f1"))>>

\* A's repository is empty; B sets both repository locators and runs at
\* minute 30 of every hour; C inherits everything from B but sets an empty
\* command.
Config2 ==
    <<Section("A", ("command" :> <<"backup">>) @@ ("flag.repo" :> "")
                   @@ ("schedule" :> <<TokTime(11, 0)>>)),
      Section("B", ("command" :> <<"forget">>) @@ ("flag.repo" :> "r1")
                   @@ ("env.RESTIC_REPOSITORY_FILE" :> "f1")
                   @@ ("schedule" :> <<TokTime(Star, 30)>>)),
      Section("C", ("inherit" :> <<"B">>) @@ ("command" :> <<>>))>>

Configs == {Config1, Config2}

\* The names a task can have under these configurations.
Names == {"A", "B"}

\* The exit codes and the final output lines of a launched process: no
\* output at all, a last line with the stale-lock message, any other line.
ExitCodes == {0, 1, 3}
OutputKinds == {"empty", "stale", "other"}

(***************************************************************************)
(* The state.                                                              *)
(*                                                                         *)
(* Task objects.  load_config builds new Profile objects; the scheduler    *)
(* loop may still be iterating the list of a previous load.  cur holds the *)
(* objects of self.tasks, old those of the list the loop is iterating when *)
(* that is no longer self.tasks (it_list = "old"); objects nothing refers  *)
(* to any more are dropped.  An object is [schedule, next_run, last_run,   *)
(* req]; req is a history field: a run-now request was written to the      *)
(* object and its command has not been launched since.                     *)
(***************************************************************************)
VARIABLES
    now,        \* the wall clock
    reloads,    \* the number of "Reload config" clicks so far
    clicks,     \* the number of "Run Now" clicks so far
    disk,       \* the sections of status.ini on disk
    state,      \* self.state, the status in memory
    sections,   \* the sections of config.ini as load_config last read them
    profiles,   \* self.profiles, in dict order
    inherits,   \* load_config's local inherits, while it resolves inheritance
    tasks,      \* self.tasks, the names of the runnable profiles in order
    cur, old,   \* the task objects
    running,    \* self.running
    pc,         \* where the thread of service_loop is
    it_list,    \* the list "for task in self.tasks" iterates: "cur" or "old"
    it_tasks,   \* the names in that list
    idx,        \* the position of the for loop in it
    next_task,  \* the local next_task of service_loop ("" for None)
    phase,      \* run_task: which try_run is under way: first, unlock, retry
    proc,       \* the Popen handle of try_run
    procs,      \* the pids of the launched processes that have not exited
    ret,        \* run_task's local ret
    n_cmd,      \* history: launches of the task's command in this run_task
    n_unlock,   \* history: launches of unlock in this run_task
    hist,       \* history: the results of the try_runs of this run_task
    exc,        \* the exception that ended the tick ("" for none)
    rc,         \* the exit code of the service (None while it runs)
    override,   \* the cmd_args Profile.get_command was last given
    args,       \* the argument vector it built
    stopping,   \* history: BaseHandler.stop has been called
    reloaded    \* history: the task whose process was running when the
                \* configuration was reloaded ("" for none), until run_task
                \* is next called

vars == <<now, reloads, clicks, disk, state, sections, profiles, inherits, tasks,
          cur, old, running, pc, it_list, it_tasks, idx, next_task, phase,
          proc, procs, ret, n_cmd, n_unlock, hist, exc, rc, override, args, stopping, reloaded>>

NoObject == [schedule |-> <<>>, next_run |-> None, last_run |-> None, req |-> FALSE]
NoObjects == [n \in Names |-> NoObject]

\* A section of the status file; None stands for a key that is not there.
NoSection ==
    [has |-> FALSE, started |-> None, pid |-> None, log_file |-> None,
     last_run |-> None, exit_code |-> None]
NoSections == [n \in Names |-> NoSection]

NoProc == [pid |-> 0, status |-> "none", ret |-> None, last |-> "empty"]
NoHist ==
    [first |-> None, first_last |-> "empty", unlock |-> None, retry |-> None,
     retry_last |-> "empty"]

\* save_state updating every section of the status with the values.
save_state_every(st, section, values) ==
    [n \in DOMAIN st |->
        [k \in DOMAIN NoSection |->
            IF k = "has" THEN TRUE
            ELSE IF k \in DOMAIN values THEN values[k] ELSE st[n][k]]]

\* BaseHandler.save_state, lines 312-314: the update of the section in memory.
save_state(st, section, values) ==
    [st EXCEPT ![section] =
        [k \in DOMAIN NoSection |->
            IF k = "has" THEN TRUE
            ELSE IF k \in DOMAIN values THEN values[k] ELSE st[section][k]]]

\* base_path.is_dir(): the service is given a folder, with config.ini and
\* status.ini in it, and not a single .ini file.
is_dir == TRUE

\* BaseHandler.save_state, lines 315-317: the whole status is written out
\* when asked to and when base_path is a folder.
WriteState(st, write) == IF write /\ is_dir THEN st ELSE disk

\* Profile.is_pending, lines 181-182.
is_pending(o) == o.next_run # None /\ o.next_run <= now

\* The rule of lines 304-306 with a window of one hour ahead.
NoCatchUpHour(n1, base) == n1 > now - Day /\ base < now + Hour

\* The rule of lines 304-306 without the test of the missed occurrence.
NoCatchUpAhead(n1, base) == base < now + 12 * Hour

\* Lines 304-306: the occurrence after the persisted last run is less than a
\* day old and the occurrence after now is less than 12 hours ahead.  (The
\* comparison raises TypeError on a None operand; the callers test for it.)
NoCatchUp(n1, base) == n1 > now - Day /\ base < now + 12 * Hour

\* load_config, lines 298-309, for one task: the next_run the task is left
\* with.  base is the next_run its construction computed from the clock
\* (line 136); L is the persisted last_run.  Every exception inside the try
\* block ends the seeding of that task where it stands.
SeedNextRun(schedule, L) ==
    LET base == find_next_run(schedule, None, now)
    IN  IF L = None THEN base
        ELSE IF find_next_run_raises(schedule, L, now) THEN base
        ELSE LET n1 == find_next_run(schedule, L, now)
             IN  IF n1 = None THEN None
                 ELSE IF n1 > now - Day /\ base = None THEN n1
                 ELSE IF NoCatchUp(n1, base) THEN base
                 ELSE n1

\* Line 258-269: building a Profile whose schedule is set computes its
\* next_run from the clock, and that raises when find_next_run does.
LoadFails(config) ==
    \E i \in 1..Len(config) :
        find_next_run_raises(ScheduleOf(config[i]), None, now)

\* Line 294: the runnable profiles, in dict order.
RECURSIVE TasksOf(_)
TasksOf(ps) ==
    IF ps = <<>> THEN <<>>
    ELSE (IF is_runnable(Head(ps)) THEN <<Head(ps).name>> ELSE <<>>) \o TasksOf(Tail(ps))

Range(seq) == {seq[i] : i \in 1..Len(seq)}

\* Line 260-264: the status read from status.ini, for a folder only.
ReadStatus == IF is_dir THEN disk ELSE NoSections

\* BaseHandler.load_config, lines 255-309, for a configuration whose
\* inheritance resolves.
load_config(config) ==
    LET r == ResolveInheritance(InitialProfiles(config))
        ts == TasksOf(r.ps)
        status == ReadStatus
    IN  /\ ~LoadFails(config)
        /\ r.error = ""
        /\ sections' = config
        /\ profiles' = r.ps
        /\ inherits' = FALSE
        /\ UNCHANGED <<override, args, stopping>>
        /\ tasks' = ts
        /\ state' = [n \in Names |->
                        IF n \in Range(ts)
                        THEN save_state(status, n, [started |-> 0, pid |-> 0])[n]
                        ELSE status[n]]
        /\ cur' = [n \in Names |->
                        IF n \in Range(ts)
                        THEN LET sch == ScheduleOf(r.ps[IndexOf(r.ps, n)])
                             IN  [schedule |-> sch,
                                  next_run |-> SeedNextRun(sch, status[n].last_run),
                                  last_run |-> status[n].last_run,
                                  req |-> FALSE]
                        ELSE NoObject]

(***************************************************************************)
(* The thread of service_loop.                                             *)
(***************************************************************************)
TaskObj(n) == IF it_list = "cur" THEN cur[n] ELSE old[n]

\* The assignment of o to the fields of the task object n of the list the
\* loop iterates.
SetTaskObj(n, o) ==
    IF it_list = "cur"
    THEN cur' = [cur EXCEPT ![n] = o] /\ old' = old
    ELSE old' = [old EXCEPT ![n] = o] /\ cur' = cur

\* The loop thread lets go of the list it iterated and of run_task's locals.
DropLocals ==
    /\ it_list' = "cur" /\ old' = NoObjects /\ it_tasks' = <<>> /\ idx' = 0
    /\ next_task' = ""

NoRun ==
    /\ phase' = "" /\ ret' = None
    /\ n_cmd' = 0 /\ n_unlock' = 0 /\ hist' = NoHist

\* run_task's log_file when base_path is not a folder (line 384).
NoLogFile == 0 - 3

\* BaseHandler.__init__, lines 245-253: the first load_config.
Boot(config) ==
    /\ pc = "boot"
    /\ load_config(config)
    /\ pc' = "start"
    /\ UNCHANGED <<now, reloads, clicks, disk, old, running, it_list, it_tasks, idx,
                   next_task, phase, proc, procs, ret, n_cmd, n_unlock,
                   hist, exc, rc, reloaded>>

\* service_loop, lines 470-476.  The section __prestic__ itself is not
\* modelled; saving it writes the whole status out.
ServiceStart ==
    /\ pc = "start"
    /\ disk' = WriteState(state, TRUE)
    /\ running' = TRUE
    /\ pc' = "while"
    /\ UNCHANGED <<sections, inherits, override, args, stopping, reloaded>>
    /\ UNCHANGED <<now, reloads, clicks, state, profiles, tasks, cur, old, it_list,
                   it_tasks, idx, next_task, phase, proc, procs, ret,
                   n_cmd, n_unlock, hist, exc, rc>>

\* Lines 479-483 and 502: the loop condition and the start of a tick.
LoopWhile ==
    /\ pc = "while"
    /\ IF running
       THEN /\ pc' = "for"
            /\ it_list' = "cur" /\ it_tasks' = tasks /\ idx' = 1
            /\ next_task' = ""
       ELSE /\ pc' = "quit"
            /\ UNCHANGED <<it_list, it_tasks, idx, next_task>>
    /\ UNCHANGED <<sections, inherits, override, args, stopping, reloaded>>
    /\ UNCHANGED <<now, reloads, clicks, disk, state, profiles, tasks, cur, old, running,
                   phase, proc, procs, ret, n_cmd, n_unlock, hist, exc, rc>>

\* Lines 483-485: the next task of the list; it is run when it is pending.
LoopFor ==
    /\ pc = "for"
    /\ IF idx > Len(it_tasks)
       THEN pc' = "after_for" /\ idx' = idx
       ELSE LET o == TaskObj(it_tasks[idx])
            IN  IF o.next_run = None THEN pc' = "for" /\ idx' = idx + 1
                ELSE IF is_pending(o) THEN pc' = "run_task" /\ idx' = idx
                ELSE pc' = "cmp" /\ idx' = idx
    /\ UNCHANGED <<sections, inherits, override, args, stopping, reloaded>>
    /\ UNCHANGED <<now, reloads, clicks, disk, state, profiles, tasks, cur, old, running,
                   it_list, it_tasks, next_task, phase, proc, procs,
                   ret, n_cmd, n_unlock, hist, exc, rc>>

\* run_task, lines 378-387.
RunTaskStart ==
    /\ pc = "run_task"
    /\ state' = save_state(state, it_tasks[idx],
                    [started |-> now,
                     log_file |-> IF is_dir THEN now - (now % Minute) ELSE NoLogFile])
    /\ disk' = WriteState(state', TRUE)
    /\ phase' = "first" /\ ret' = None
    /\ n_cmd' = 0 /\ n_unlock' = 0 /\ hist' = NoHist
    /\ pc' = "launch"
    /\ UNCHANGED <<sections, inherits, override, args, stopping>>
    /\ reloaded' = ""
    /\ UNCHANGED <<now, reloads, clicks, profiles, tasks, cur, old, running, it_list,
                   it_tasks, idx, next_task, proc, procs, exc, rc>>

\* The pid a new process gets.
NewPid == CHOOSE p \in 1..(Cardinality(procs) + 1) : p \notin procs

\* try_run, lines 359-362, with Profile.run, lines 237-241: last_run and
\* next_run are assigned, then Popen either starts the process, whose pid is
\* saved, or raises OSError.
TryRunLaunch ==
    /\ pc = "launch"
    /\ LET t == it_tasks[idx]
           o == TaskObj(t)
       IN  /\ SetTaskObj(t, [o EXCEPT !.last_run = now, !.next_run = None,
                                      !.req = IF phase = "unlock" THEN @ ELSE FALSE])
           /\ \/ /\ proc' = [pid |-> NewPid, status |-> "running", ret |-> None,
                             last |-> "empty"]
                 /\ procs' = procs \cup {NewPid}
                 /\ state' = save_state(state, t, [pid |-> NewPid])
                 /\ disk' = WriteState(state', TRUE)
                 /\ n_cmd' = IF phase = "unlock" THEN n_cmd ELSE n_cmd + 1
                 /\ n_unlock' = IF phase = "unlock" THEN n_unlock + 1 ELSE n_unlock
                 /\ pc' = "wait" /\ exc' = exc
              \/ /\ exc' = "OSError" /\ pc' = "except"
                 /\ UNCHANGED <<proc, procs, state, disk, n_cmd, n_unlock>>
    /\ UNCHANGED <<sections, inherits, override, args, stopping, reloaded>>
    /\ UNCHANGED <<now, reloads, clicks, profiles, tasks, running, it_list, it_tasks,
                   idx, next_task, phase, ret, hist, rc>>

\* A launched process exits, with some exit code and some last output line.
ProcExit(pid, code, last) ==
    /\ pid \in procs
    /\ pc # "exited"
    /\ procs' = procs \ {pid}
    /\ proc' = IF proc.pid = pid /\ proc.status = "running"
               THEN [proc EXCEPT !.status = "exited", !.ret = code, !.last = last]
               ELSE proc
    /\ UNCHANGED <<sections, inherits, override, args, stopping, reloaded>>
    /\ UNCHANGED <<now, reloads, clicks, disk, state, profiles, tasks, cur, old, running,
                   pc, it_list, it_tasks, idx, next_task, phase, ret,
                   n_cmd, n_unlock, hist, exc, rc>>

\* try_run returning without waiting for the process.
DrainedNoWait(p) == TRUE

\* try_run, lines 368-372: reading proc.stdout to its end and proc.wait()
\* return once the process has exited.
Drained(p) == p.status = "exited"

\* Retrying for as long as the stale-lock line comes back.
RetryDecisionAgain(ph, code, last) ==
    IF ph \in {"first", "retry"}
    THEN IF code = 1
         THEN IF last = "empty" THEN "IndexError"
              ELSE IF last = "stale" THEN "unlock" ELSE "finish"
         ELSE "finish"
    ELSE IF code = 0 THEN "retry" ELSE "finish"

\* Retrying whatever unlock returned.
RetryDecisionAnyUnlock(ph, code, last) ==
    IF ph = "first"
    THEN IF code = 1
         THEN IF last = "empty" THEN "IndexError"
              ELSE IF last = "stale" THEN "unlock" ELSE "finish"
         ELSE "finish"
    ELSE IF ph = "unlock" THEN "retry"
    ELSE "finish"

\* run_task, lines 389-396: what follows the try_run of phase ph that
\* returned the exit code `code` and an output whose last line is `last`.
\* output[-1] raises IndexError when there is no output line.
RetryDecision(ph, code, last) ==
    IF ph = "first"
    THEN IF code = 1
         THEN IF last = "empty" THEN "IndexError"
              ELSE IF last = "stale" THEN "unlock" ELSE "finish"
         ELSE "finish"
    ELSE IF ph = "unlock"
    THEN IF code = 0 THEN "retry" ELSE "finish"
    ELSE "finish"

\* try_run, lines 368-376, and the rest of lines 389-396.
TryRunWait ==
    /\ pc = "wait"
    /\ Drained(proc)
    /\ LET d == RetryDecision(phase, proc.ret, proc.last)
       IN  /\ IF phase = "unlock"
              THEN /\ ret' = ret
                   /\ hist' = [hist EXCEPT !.unlock = proc.ret]
              ELSE /\ ret' = proc.ret
                   /\ hist' = IF phase = "first"
                              THEN [hist EXCEPT !.first = proc.ret,
                                                !.first_last = proc.last]
                              ELSE [hist EXCEPT !.retry = proc.ret,
                                                !.retry_last = proc.last]
           /\ IF d = "IndexError"
              THEN exc' = "IndexError" /\ pc' = "except" /\ phase' = phase
              ELSE IF d = "finish"
              THEN exc' = exc /\ pc' = "finish" /\ phase' = phase
              ELSE exc' = exc /\ pc' = "launch" /\ phase' = d
    /\ proc' = NoProc
    /\ UNCHANGED <<sections, inherits, override, args, stopping, reloaded>>
    /\ UNCHANGED <<now, reloads, clicks, disk, state, profiles, tasks, cur, old, running,
                   it_list, it_tasks, idx, next_task, procs, n_cmd, n_unlock, rc>>

\* set_last_run that reschedules every task a day later.
set_last_run_daily(o) ==
    [o EXCEPT !.last_run = now, !.next_run = now + Day]

\* Profile.set_last_run, lines 177-179, called without an argument, where
\* find_next_run returns.
set_last_run(o) ==
    [o EXCEPT !.last_run = now, !.next_run = find_next_run(o.schedule, now, now)]

\* run_task, lines 398-406: the status text and task.set_last_run().  When
\* find_next_run raises, last_run is already assigned.
RunTaskFinish ==
    /\ pc = "finish"
    /\ LET t == it_tasks[idx]
           o == TaskObj(t)
       IN  IF find_next_run_raises(o.schedule, now, now)
           THEN /\ SetTaskObj(t, [o EXCEPT !.last_run = now])
                /\ exc' = "ValueError" /\ pc' = "except"
           ELSE /\ SetTaskObj(t, set_last_run(o))
                /\ exc' = exc /\ pc' = "persist"
    /\ UNCHANGED <<sections, inherits, override, args, stopping, reloaded>>
    /\ UNCHANGED <<now, reloads, clicks, disk, state, profiles, tasks, running, it_list,
                   it_tasks, idx, next_task, phase, proc, procs, ret,
                   n_cmd, n_unlock, hist, rc>>

\* The record run_task saves when the run is over, line 408.
CompletionRecord(code) == [last_run |-> now, exit_code |-> code, pid |-> 0]

\* run_task, lines 408-410.
RunTaskPersist ==
    /\ pc = "persist"
    /\ state' = save_state(state, it_tasks[idx], CompletionRecord(ret))
    /\ disk' = WriteState(state', TRUE)
    /\ pc' = "cmp"
    /\ NoRun
    /\ UNCHANGED <<sections, inherits, override, args, stopping, reloaded>>
    /\ UNCHANGED <<now, reloads, clicks, profiles, tasks, cur, old, running,
                   it_list, it_tasks, idx, next_task, proc, procs, exc, rc>>

\* Lines 487-488.  A comparison with None raises TypeError.
LoopCmp ==
    /\ pc = "cmp"
    /\ LET t == it_tasks[idx]
       IN  IF next_task = ""
           THEN next_task' = t /\ idx' = idx + 1 /\ pc' = "for" /\ exc' = exc
           ELSE IF TaskObj(t).next_run = None \/ TaskObj(next_task).next_run = None
           THEN next_task' = next_task /\ idx' = idx /\ pc' = "except"
                /\ exc' = "TypeError"
           ELSE /\ next_task' = IF TaskObj(t).next_run < TaskObj(next_task).next_run
                                THEN t ELSE next_task
                /\ idx' = idx + 1 /\ pc' = "for" /\ exc' = exc
    /\ UNCHANGED <<sections, inherits, override, args, stopping, reloaded>>
    /\ UNCHANGED <<now, reloads, clicks, disk, state, profiles, tasks, cur, old,
                   running, it_list, it_tasks, phase, proc, procs, ret, n_cmd,
                   n_unlock, hist, rc>>

\* Lines 490-494: the sleep time, from next_task.next_run.
LoopAfterFor ==
    /\ pc = "after_for"
    /\ IF next_task # "" /\ TaskObj(next_task).next_run = None
       THEN pc' = "except" /\ exc' = "TypeError"
       ELSE pc' = "sleep" /\ exc' = exc
    /\ UNCHANGED <<sections, inherits, override, args, stopping, reloaded>>
    /\ UNCHANGED <<now, reloads, clicks, disk, state, profiles, tasks, cur, old, running,
                   it_list, it_tasks, idx, next_task, phase, proc, procs,
                   ret, n_cmd, n_unlock, hist, rc>>

\* An except clause for OSError alone.
CatchesOSError(e) == e = "OSError"

\* Line 496, "except Exception": the exceptions of the model are all
\* subclasses of Exception.
Catches(e) == e \in {"OSError", "IndexError", "ValueError", "TypeError"}

\* Lines 496-499: the exception that left the try block is logged and
\* notified when the except clause catches it; otherwise it ends the thread.
LoopExcept ==
    /\ pc = "except"
    /\ pc' = IF Catches(exc) THEN "sleep" ELSE "crashed"
    /\ DropLocals /\ NoRun
    /\ proc' = NoProc
    /\ UNCHANGED <<sections, inherits, override, args, stopping, reloaded>>
    /\ UNCHANGED <<now, reloads, clicks, disk, state, profiles, tasks, cur, running,
                   procs, exc, rc>>

\* Line 501: time.sleep(min(sleep_time, 10)), then the next tick.
LoopSleep ==
    /\ pc = "sleep"
    /\ pc' = "while"
    /\ DropLocals
    /\ exc' = ""
    /\ UNCHANGED <<sections, inherits, override, args, stopping, reloaded>>
    /\ UNCHANGED <<now, reloads, clicks, disk, state, profiles, tasks, cur, running,
                   phase, proc, procs, ret, n_cmd, n_unlock, hist, rc>>

\* ServiceHandler.quit, lines 510-516: running is cleared and os._exit(rc)
\* ends the process at once; what it held in memory is gone, the status
\* file stays.
quit(code) ==
    /\ running' = FALSE /\ rc' = code /\ pc' = "exited"
    /\ state' = NoSections /\ sections' = <<>> /\ profiles' = <<>>
    /\ inherits' = FALSE /\ tasks' = <<>>
    /\ override' = <<>> /\ args' = <<>> /\ stopping' = FALSE /\ reloaded' = ""
    /\ cur' = NoObjects /\ DropLocals /\ NoRun
    /\ proc' = NoProc /\ exc' = ""
    /\ UNCHANGED <<now, reloads, clicks, disk, procs>>

\* Line 502: the loop has ended, self.quit(0).
LoopQuit == pc = "quit" /\ quit(0)

(***************************************************************************)
(* The callbacks of the tray icon, which run on the GUI's thread, and the  *)
(* clock.                                                                  *)
(***************************************************************************)
Alive == pc \notin {"boot", "exited"}

\* The loop thread holds a reference to the list it took from self.tasks.
MidTick ==
    pc \in {"for", "run_task", "launch", "wait", "finish", "persist", "cmp",
            "after_for", "except"}

\* on_run_now_click, lines 425-428, for a task of the menu.
on_run_now_click(n) ==
    /\ Alive
    /\ clicks < MaxClicks
    /\ clicks' = clicks + 1
    /\ n \in Range(tasks)
    /\ cur' = [cur EXCEPT ![n].next_run = now, ![n].req = TRUE]
    /\ UNCHANGED <<sections, inherits, override, args, stopping, reloaded>>
    /\ UNCHANGED <<now, reloads, disk, state, profiles, tasks, old, running, pc,
                   it_list, it_tasks, idx, next_task, phase, proc, procs,
                   ret, n_cmd, n_unlock, hist, exc, rc>>

\* run_task has launched a process of its task (Profile.run, line 359) and
\* has not returned yet.
Launched ==
    \/ pc \in {"wait", "finish", "persist"}
    \/ pc = "launch" /\ phase # "first"

\* "Reload config", line 459: load_config on the GUI's thread.  The loop
\* keeps the list, and the objects, it is iterating.
Reload(config) ==
    /\ Alive
    /\ reloads < MaxReloads
    /\ reloads' = reloads + 1
    /\ load_config(config)
    /\ reloaded' = IF Launched THEN it_tasks[idx] ELSE ""
    /\ IF MidTick /\ it_list = "cur"
       THEN old' = cur /\ it_list' = "old"
       ELSE UNCHANGED <<old, it_list>>
    /\ UNCHANGED <<now, clicks, disk, running, pc, it_tasks, idx, next_task,
                   phase, proc, procs, ret, n_cmd, n_unlock, hist, exc, rc>>

\* "Quit", line 460: self.quit() on the GUI's thread.
Quit == Alive /\ quit(0)

\* BaseHandler.stop, lines 323-325, called by main when KeyboardInterrupt
\* leaves handler.run (lines 604-607), after which main returns: the signal
\* arrives once, here after service_loop has set self.running (line 472).
Stop ==
    /\ Alive /\ running /\ ~stopping
    /\ running' = FALSE /\ stopping' = TRUE
    /\ UNCHANGED <<sections, inherits, override, args, reloaded>>
    /\ UNCHANGED <<now, reloads, clicks, disk, state, profiles, tasks, cur, old, pc,
                   it_list, it_tasks, idx, next_task, phase, proc, procs,
                   ret, n_cmd, n_unlock, hist, exc, rc>>

\* Time passes.  The steps of the loop thread take no time of the clock's
\* resolution except where the thread blocks: reading the output of the
\* process and waiting for it (lines 368-372), and time.sleep (line 501).
Tick(t) ==
    /\ pc \in {"wait", "sleep"}
    /\ t \in Clock /\ t > now
    /\ now' = t
    /\ UNCHANGED <<sections, inherits, override, args, stopping, reloaded>>
    /\ UNCHANGED <<reloads, clicks, disk, state, profiles, tasks, cur, old, running, pc,
                   it_list, it_tasks, idx, next_task, phase, proc, procs,
                   ret, n_cmd, n_unlock, hist, exc, rc>>

Init ==
    /\ now = T0
    /\ reloads = 0 /\ clicks = 0
    /\ \E L \in InitialLastRuns :
          disk = [n \in Names |->
                    IF n = "A" /\ L # None
                    THEN [NoSection EXCEPT !.has = TRUE, !.started = 0, !.pid = 0,
                                           !.last_run = L, !.exit_code = 0]
                    ELSE NoSection]
    /\ state = NoSections
    /\ sections = <<>> /\ profiles = <<>> /\ inherits = FALSE /\ tasks = <<>>
    /\ cur = NoObjects /\ old = NoObjects
    /\ running = FALSE
    /\ pc = "boot"
    /\ it_list = "cur" /\ it_tasks = <<>> /\ idx = 0 /\ next_task = ""
    /\ phase = "" /\ proc = NoProc /\ procs = {}
    /\ ret = None
    /\ n_cmd = 0 /\ n_unlock = 0 /\ hist = NoHist
    /\ exc = "" /\ rc = None
    /\ override = <<>> /\ args = <<>> /\ stopping = FALSE /\ reloaded = ""

Next ==
    \/ \E config \in Configs : Boot(config)
    \/ ServiceStart
    \/ LoopWhile
    \/ LoopFor
    \/ RunTaskStart
    \/ TryRunLaunch
    \/ \E pid \in procs, code \in ExitCodes, last \in OutputKinds :
            ProcExit(pid, code, last)
    \/ TryRunWait
    \/ RunTaskFinish
    \/ RunTaskPersist
    \/ LoopCmp
    \/ LoopAfterFor
    \/ LoopExcept
    \/ LoopSleep
    \/ LoopQuit
    \/ \E n \in Names : on_run_now_click(n)
    \/ \E config \in Configs : Reload(config)
    \/ Quit
    \/ Stop
    \/ \E t \in Clock : Tick(t)

Spec == Init /\ [][Next]_vars

(***************************************************************************)
(* The claims.                                                             *)
(***************************************************************************)
\* The loop thread is inside run_task.
RunPcs == {"run_task", "launch", "wait", "finish", "persist"}

\* The task run_task is running.
RunningTask == it_tasks[idx]

\* C1: in one invocation of run_task the unlock subcommand is launched at
\* most once and the task's command at most twice; when the re-launched
\* command exits with 1 and a stale-lock last line again, nothing more is
\* launched and the execution ends with exit code 1.
C1_RetryAtMostOnce ==
    /\ n_unlock <= 1
    /\ n_cmd <= 2
    /\ (hist.retry = 1 /\ hist.retry_last = "stale")
            => /\ pc \in {"finish", "persist", "except"}
               /\ ret = 1 /\ n_unlock = 1 /\ n_cmd = 2

\* The re-launched command has failed with the stale-lock line again and
\* the execution is about to be recorded.
C1_Witness ==
    /\ pc = "persist"
    /\ hist.first = 1 /\ hist.first_last = "stale" /\ hist.unlock = 0
    /\ hist.retry = 1 /\ hist.retry_last = "stale"

\* C2: run_task goes on to the unlock subcommand if and only if the first
\* launch exited with code 1 and a stale-lock last line; it goes on to
\* re-launch the command if and only if unlock exited with 0, and then the
\* final exit code is the re-launch's; when unlock exits non-zero the final
\* exit code stays the first launch's, 1.
C2_UnlockAndRetry ==
    /\ (pc \in RunPcs \cup {"except"} /\ hist.first # None)
            => (phase \in {"unlock", "retry"}
                    <=> (hist.first = 1 /\ hist.first_last = "stale"))
    /\ (pc \in RunPcs \cup {"except"} /\ hist.unlock # None)
            => (phase = "retry" <=> hist.unlock = 0)
    /\ pc \in {"finish", "persist"}
            => /\ phase = "retry" => ret = hist.retry
               /\ phase = "unlock" => (hist.unlock # 0 /\ ret = 1 /\ ret = hist.first)
               /\ phase = "first" => ret = hist.first

\* The execution of the spec's example: stale lock, unlock succeeds, the
\* re-run succeeds.
C2_Witness ==
    /\ pc = "persist" /\ phase = "retry"
    /\ hist.first = 1 /\ hist.first_last = "stale" /\ hist.unlock = 0
    /\ hist.retry = 0 /\ ret = 0 /\ n_unlock = 1 /\ n_cmd = 2

\* C3: whenever the loop thread leaves run_task after an exit code of the
\* launched process has been obtained, it does so by saving last_run = now,
\* exit_code = the final exit code and pid = 0; and set_last_run leaves the
\* task with last_run = now and next_run = find_next_run(last_run).
C3_CompletionRecorded ==
    /\ [][(/\ pc \in RunPcs
           /\ pc' \notin RunPcs \cup {"exited"}
           /\ (hist.first # None \/ hist'.first # None))
            => (/\ pc = "persist"
                /\ state'[RunningTask].last_run = now
                /\ state'[RunningTask].exit_code = ret
                /\ state'[RunningTask].pid = 0)]_vars
    /\ [][(pc = "finish" /\ pc' \notin {"finish", "exited"})
            => (/\ pc' = "persist"
                /\ TaskObj(RunningTask)'.last_run = now
                /\ TaskObj(RunningTask)'.next_run
                      = find_next_run(TaskObj(RunningTask).schedule, now, now))]_vars

\* C4: at every moment at most one launched process is running, and the
\* loop thread launches a process (a task's command, unlock or the retry)
\* only when none is running, whatever run-now requests and reloads
\* interleave.
C4_OneProcess ==
    /\ Cardinality(procs) <= 1
    /\ pc = "launch" => procs = {}
    /\ procs # {} => (pc \in {"wait", "exited"} /\ (pc = "wait" => procs = {proc.pid}))

\* The re-launched command is running after a reload and a run-now request
\* came in during the execution.
C4_Witness ==
    /\ pc = "wait" /\ phase = "retry" /\ procs # {}
    /\ reloads > 0 /\ clicks > 0 /\ it_list = "old"

\* C5: an exception raised inside a tick, a failure to launch included, is
\* caught: the loop thread never ends with an exception, from the except
\* clause it goes on to the sleep that ends the tick, and while running is
\* set it goes from there to the next tick and never to quit.
C5_LoopSurvives ==
    /\ [](pc # "crashed")
    /\ [](pc = "quit" => ~running)
    /\ [][(pc = "except" /\ pc' # "except") => pc' \in {"sleep", "exited"}]_vars
    /\ [][(pc = "sleep" /\ pc' # "sleep") => pc' \in {"while", "exited"}]_vars
    /\ [][(pc = "while" /\ running /\ pc' # "while") => pc' \in {"for", "exited"}]_vars

\* The launch of a process has failed, the exception is caught and the loop
\* is about to sleep and go on.
C5_Witness == pc = "sleep" /\ exc = "OSError" /\ running

\* A run-now request written to the task object o of name n is lost: no run
\* of a list that holds o is under way, and o is not pending.
Lost(list, n) ==
    LET o == IF list = "cur" THEN cur[n] ELSE old[n]
    IN  /\ o.req
        /\ ~(pc \in RunPcs /\ it_list = list /\ RunningTask = n)
        /\ ~is_pending(o)

\* C6: a run-now request for a task, issued at any moment, the task's own
\* run included, is never lost: once no run of the task is under way the
\* task is pending, so that the next tick that reaches it starts it.
C6_RunNowNeverLost ==
    /\ \A n \in Range(tasks) : ~Lost("cur", n)
    /\ it_list = "old" => \A n \in Range(it_tasks) : ~Lost("old", n)

\* A step of load_config, at startup or on "Reload config".
LoadStep == (\E config \in Configs : Boot(config)) \/ (\E config \in Configs : Reload(config))

\* The persisted last_run L is within the last 24 hours.
Recent(L) == L # None /\ L >= now - Day /\ L <= now

\* C7 as claimed: after a load, a task whose persisted last_run is within
\* the last 24 hours has next_run = find_next_run(last_run).
C7_RecentFromLastRun ==
    [][LoadStep =>
        \A n \in Range(tasks') :
            LET L == state'[n].last_run
            IN  (Recent(L) /\ ~find_next_run_raises(cur'[n].schedule, L, now))
                    => cur'[n].next_run = find_next_run(cur'[n].schedule, L, now)]_vars

\* C7, amended: after a load, a task whose persisted last_run is within the
\* last 24 hours has next_run = find_next_run() computed from the clock when
\* that and find_next_run(last_run) are both non-null and the former is less
\* than 12 hours ahead, and next_run = find_next_run(last_run) otherwise.
C7_RecentCatchUp ==
    [][LoadStep =>
        \A n \in Range(tasks') :
            LET L == state'[n].last_run
                n1 == find_next_run(cur'[n].schedule, L, now)
                base == find_next_run(cur'[n].schedule, None, now)
            IN  (Recent(L) /\ ~find_next_run_raises(cur'[n].schedule, L, now))
                    => /\ cur'[n].last_run = L
                       /\ cur'[n].next_run =
                            IF n1 # None /\ base # None /\ base < now + 12 * Hour
                            THEN base ELSE n1]_vars

\* The service has just loaded task A, last run 2 hours ago, and seeded its
\* next_run from that last run.
C7_Witness ==
    /\ pc = "start" /\ "A" \in Range(tasks)
    /\ state["A"].last_run = now - 2 * Hour
    /\ cur["A"].next_run = find_next_run(cur["A"].schedule, now - 2 * Hour, now)

\* C8 as claimed: after a load, a scheduled task whose persisted last_run is
\* older than 24 hours is due at once.
C8_LongOfflineDue ==
    [][LoadStep =>
        \A n \in Range(tasks') :
            LET L == state'[n].last_run
            IN  (/\ cur'[n].schedule # <<>>
                 /\ L # None /\ L < now - Day
                 /\ ~find_next_run_raises(cur'[n].schedule, L, now))
                    => /\ cur'[n].next_run # None
                       /\ cur'[n].next_run <= now]_vars

\* C8, amended: after a load, a scheduled task whose persisted last_run is
\* older than 24 hours and whose occurrence after that last_run,
\* find_next_run(last_run), is at least 24 hours old has next_run =
\* find_next_run(last_run) and is due at once; and when a run of a task
\* completes, set_last_run leaves its next_run null or later than the
\* completion time, so that no missed occurrence is replayed.
C8_LongOfflineCatchUp ==
    /\ [][LoadStep =>
            \A n \in Range(tasks') :
                LET L == state'[n].last_run
                    n1 == find_next_run(cur'[n].schedule, L, now)
                IN  (/\ cur'[n].schedule # <<>>
                     /\ L # None /\ L < now - Day
                     /\ ~find_next_run_raises(cur'[n].schedule, L, now)
                     /\ n1 # None /\ n1 <= now - Day)
                        => /\ cur'[n].next_run = n1
                           /\ cur'[n].next_run <= now]_vars
    /\ [][(pc = "finish" /\ pc' = "persist")
            => \/ TaskObj(RunningTask)'.next_run = None
               \/ TaskObj(RunningTask)'.next_run > now]_vars

\* The service has just loaded task A, last run 3 days ago, and A is due.
C8_Witness ==
    /\ pc = "start" /\ "A" \in Range(tasks)
    /\ state["A"].last_run = now - 3 * Day
    /\ cur["A"].next_run = find_next_run(cur["A"].schedule, now - 3 * Day, now)
    /\ cur["A"].next_run <= now

\* An object of a task that has no schedule.
Unscheduled(o) == o.schedule = <<>>

\* C9: a task without a schedule has a next_run only through a run-now
\* request that has not been served: the loop starts it only on such a
\* request, and after the run its next_run is null until the next request.
C9_UnscheduledOnlyOnRequest ==
    /\ \A n \in Names :
          /\ (Unscheduled(cur[n]) /\ cur[n].next_run # None) => cur[n].req
          /\ (Unscheduled(old[n]) /\ old[n].next_run # None) => old[n].req
    /\ (pc = "run_task" /\ Unscheduled(TaskObj(RunningTask)))
            => TaskObj(RunningTask).req
    /\ (pc \in {"persist", "cmp"} /\ idx > 0 /\ idx <= Len(it_tasks)
            /\ Unscheduled(TaskObj(RunningTask)) /\ ~TaskObj(RunningTask).req)
            => TaskObj(RunningTask).next_run = None

\* The run of a task without a schedule, started on a request, has
\* completed and the task has no next_run.
C9_Witness ==
    /\ pc = "persist" /\ clicks = 1
    /\ Unscheduled(TaskObj(RunningTask))
    /\ TaskObj(RunningTask).next_run = None
    /\ ~TaskObj(RunningTask).req

\* The service has loaded a configuration.
Loaded == pc \notin {"boot", "exited"}

HasLocator(p, key) == is_defined(p, key) /\ p.props[key] \notin {"", NoValue}
HasCommand(p) == is_defined(p, "command") /\ Len(p.props["command"]) > 0

\* C10 as claimed: a resolved profile is in the task list if and only if
\* its command is not empty and exactly one of repository and
\* repository-file is set.
C10_RunnableExactlyOne ==
    Loaded => \A i \in 1..Len(profiles) :
        profiles[i].name \in Range(tasks)
            <=> /\ HasCommand(profiles[i])
                /\ HasLocator(profiles[i], "flag.repo")
                        # HasLocator(profiles[i], "env.RESTIC_REPOSITORY_FILE")

\* C10, amended: a resolved profile is in the task list if and only if its
\* command is not empty and at least one of repository and repository-file
\* is set.
C10_RunnableAtLeastOne ==
    Loaded => \A i \in 1..Len(profiles) :
        profiles[i].name \in Range(tasks)
            <=> /\ HasCommand(profiles[i])
                /\ \/ HasLocator(profiles[i], "flag.repo")
                   \/ HasLocator(profiles[i], "env.RESTIC_REPOSITORY_FILE")

\* After a reload, A, whose repository is now empty, is no task, C, whose
\* command is empty, is no task, and B, which sets both locators, is one.
C10_Witness ==
    /\ Loaded /\ reloads = 1
    /\ tasks = <<"B">>
    /\ \E i \in 1..Len(profiles) :
          /\ profiles[i].name = "A" /\ HasCommand(profiles[i])
          /\ ~HasLocator(profiles[i], "flag.repo")
    /\ \E i \in 1..Len(profiles) :
          /\ profiles[i].name = "C" /\ ~HasCommand(profiles[i])
          /\ HasLocator(profiles[i], "flag.repo")

(***************************************************************************)
(* load_config step by step: the profile dictionary is built from the      *)
(* sections of the file, then the while loop of lines 272-292 resolves     *)
(* the inheritance, one profile of the for loop at a time (idx is the      *)
(* position of that for loop), then the task list is built.                *)
(***************************************************************************)
\* The sections a configuration file may hold, in any order.
\* A chain: C inherits P, which inherits G.
ChainSections ==
    {Section("G", ("flag.repo" :> "r1") @@ ("args" :> <<"x">>)
                  @@ ("env.RESTIC_REPOSITORY_FILE" :> "f1")),
     Section("P", ("inherit" :> <<"G">>) @@ ("command" :> <<"backup">>)
                  @@ ("args" :> <<"y">>)),
     Section("C", ("inherit" :> <<"P">>) @@ ("flag.repo" :> "r2"))}

\* Two parents: C inherits P1, then P2, which inherits G.
TwoParentSections ==
    {Section("G", ("flag.repo" :> "r1") @@ ("command" :> <<"g">>)),
     Section("P1", ("command" :> <<"check">>)),
     Section("P2", ("inherit" :> <<"G">>) @@ ("command" :> <<"forget">>)
                   @@ ("env.RESTIC_REPOSITORY_FILE" :> "f1")),
     Section("C", ("inherit" :> <<"P1", "P2">>) @@ ("args" :> <<"z">>))}

\* A section named default, and a profile that inherits it.
DefaultSections ==
    {Section("default", ("flag.repo" :> "r0") @@ ("args" :> <<"x">>)),
     Section("D", ("inherit" :> <<"default">>) @@ ("command" :> <<"backup">>))}

\* Cycles of length two and three, with a profile outside the cycle.
Cycle2Sections ==
    {Section("A", ("inherit" :> <<"B">>) @@ ("command" :> <<"backup">>)),
     Section("B", ("inherit" :> <<"A">>) @@ ("flag.repo" :> "r1")),
     Section("G", ("flag.repo" :> "r1"))}

Cycle3Sections ==
    {Section("A", ("inherit" :> <<"B">>) @@ ("command" :> <<"backup">>)),
     Section("B", ("inherit" :> <<"C">>)),
     Section("C", ("inherit" :> <<"A">>) @@ ("flag.repo" :> "r1"))}

\* A parent that does not exist, and a profile that inherits itself.
MissingSections ==
    {Section("A", ("inherit" :> <<"nobody">>) @@ ("command" :> <<"backup">>)),
     Section("G", ("flag.repo" :> "r1"))}

SelfSections ==
    {Section("A", ("inherit" :> <<"A">>) @@ ("command" :> <<"backup">>)),
     Section("G", ("flag.repo" :> "r1"))}

AcyclicFamilies == {ChainSections, TwoParentSections, DefaultSections}
CyclicFamilies == {Cycle2Sections, Cycle3Sections}
SectionFamilies ==
    AcyclicFamilies \cup CyclicFamilies \cup {MissingSections, SelfSections}

\* The orders in which a file can list the sections S.
Orderings(S) ==
    {f \in [1..Cardinality(S) -> S] :
        \A i, j \in 1..Cardinality(S) : i # j => f[i] # f[j]}

ConfigFiles == UNION {Orderings(S) : S \in SectionFamilies}

\* Lines 256-272: the file is read, the profiles are built, inherits = True.
ReadConfig(config) ==
    /\ pc = "boot"
    /\ sections' = config
    /\ profiles' = InitialProfiles(config)
    /\ inherits' = TRUE
    /\ pc' = "inh_while"
    /\ UNCHANGED <<now, reloads, clicks, disk, state, tasks, cur, old, running,
                   it_list, it_tasks, idx, next_task, phase, proc, procs,
                   ret, n_cmd, n_unlock, hist, exc, rc>>
    /\ UNCHANGED <<override, args, stopping, reloaded>>

\* Lines 273-274: "while inherits: inherits = False".
InheritWhile ==
    /\ pc = "inh_while"
    /\ IF inherits
       THEN inherits' = FALSE /\ idx' = 1 /\ pc' = "inh_for"
       ELSE inherits' = inherits /\ idx' = 0 /\ pc' = "inh_tasks"
    /\ UNCHANGED <<now, reloads, clicks, disk, state, sections, profiles, tasks, cur,
                   old, running, it_list, it_tasks, next_task, phase, proc,
                   procs, ret, n_cmd, n_unlock, hist, exc, rc>>
    /\ UNCHANGED <<override, args, stopping, reloaded>>

\* Lines 275-292: the next profile of the for loop.  exit(message) ends the
\* process with exit code 1.
InheritFor ==
    /\ pc = "inh_for"
    /\ IF idx > Len(profiles)
       THEN /\ pc' = "inh_while"
            /\ UNCHANGED <<profiles, inherits, idx, exc, rc>>
       ELSE LET r == InheritStep([ps |-> profiles, inherits |-> inherits,
                                  error |-> ""], idx)
            IN  IF r.error # ""
                THEN /\ pc' = "exited" /\ exc' = r.error /\ rc' = 1
                     /\ inherits' = r.inherits
                     /\ UNCHANGED <<profiles, idx>>
                ELSE /\ profiles' = r.ps /\ inherits' = r.inherits
                     /\ idx' = idx + 1 /\ pc' = "inh_for"
                     /\ UNCHANGED <<exc, rc>>
    /\ UNCHANGED <<now, reloads, clicks, disk, state, sections, tasks, cur, old,
                   running, it_list, it_tasks, next_task, phase, proc, procs,
                   ret, n_cmd, n_unlock, hist>>
    /\ UNCHANGED <<override, args, stopping, reloaded>>

\* Line 294: the task list.
LoadTasks ==
    /\ pc = "inh_tasks"
    /\ tasks' = TasksOf(profiles)
    /\ pc' = "loaded"
    /\ UNCHANGED <<now, reloads, clicks, disk, state, sections, profiles, inherits,
                   cur, old, running, it_list, it_tasks, idx, next_task, phase,
                   proc, procs, ret, n_cmd, n_unlock, hist, exc, rc>>
    /\ UNCHANGED <<override, args, stopping, reloaded>>

NextLoad ==
    \/ \E config \in ConfigFiles : ReadConfig(config)
    \/ InheritWhile
    \/ InheritFor
    \/ LoadTasks

SpecLoad == Init /\ [][NextLoad]_vars

\* The loop thread of load_config is not held up.
SpecLoadFair == SpecLoad /\ WF_vars(NextLoad)

\* The property keys of the model.
PropertyKeys ==
    {"inherit", "command", "args", "flags", "schedule", "flag.repo",
     "env.RESTIC_REPOSITORY_FILE"}

\* The profile of a name as the file declares it, before any resolution.
Declared(name) ==
    LET ps == InitialProfiles(sections) IN ps[IndexOf(ps, name)]

Undefined == [def |-> FALSE, val |-> NoValue]

\* The value the inherit chain gives a key: the profile's own when it sets
\* the key, otherwise that of the first of its declared parents, taken in
\* the order of its inherit list, whose chain gives one.
RECURSIVE Inherited(_, _)
RECURSIVE InheritedFrom(_, _)
Inherited(name, key) ==
    LET p == Declared(name)
    IN  IF is_defined(p, key) THEN [def |-> TRUE, val |-> p.props[key]]
        ELSE InheritedFrom(Get(p, "inherit"), key)

InheritedFrom(parents, key) ==
    IF parents = <<>> THEN Undefined
    ELSE LET v == Inherited(Head(parents), key)
         IN  IF v.def THEN v ELSE InheritedFrom(Tail(parents), key)

\* The resolution has ended and the task list is built.
Resolved == pc = "loaded"

\* C11: after inheritance resolution, every property other than inherit
\* itself has, for every profile, the profile's own value when it set one,
\* otherwise the value of the nearest ancestor of its inherit chain that
\* sets it, otherwise the default; a child's value is never overwritten.
C11_NearestAncestor ==
    Resolved =>
        \A i \in 1..Len(profiles) : \A key \in PropertyKeys \ {"inherit"} :
            LET p == profiles[i]
                v == Inherited(p.name, key)
            IN  /\ is_defined(p, key) <=> v.def
                /\ Get(p, key) = IF v.def THEN v.val ELSE Default(key)
                /\ is_defined(Declared(p.name), key)
                        => Get(p, key) = Declared(p.name).props[key]

\* The chain C -> P -> G is resolved: C keeps its own repository, has its
\* command and args from P, and P has its repository from G.
C11_Witness ==
    /\ Resolved
    /\ \E i, j \in 1..Len(profiles) :
          /\ profiles[i].name = "C" /\ profiles[j].name = "P"
          /\ Get(profiles[i], "flag.repo") = "r2"
          /\ Get(profiles[i], "command") = <<"backup">>
          /\ Get(profiles[i], "args") = <<"y">>
          /\ Get(profiles[j], "flag.repo") = "r1"
          /\ Get(profiles[i], "schedule") = NoValue

\* C12: inheritance resolution always ends: once load_config has entered
\* the resolution loop it leaves it, either with the profiles resolved or,
\* for a cycle of inherit references, by failing with an error.
C12_ResolutionTerminates ==
    (pc = "inh_while") ~> (pc \in {"inh_tasks", "loaded", "exited"})

\* The properties of the profile of a name in a resolved dictionary.
PropsIn(ps, name) == ps[IndexOf(ps, name)].props

\* C13: for an acyclic set of profiles, the flattened properties of every
\* profile after resolution are the same whatever the order in which the
\* profiles are enumerated: the resolution of the file as it was read gives
\* every profile the properties that the resolution of every other order
\* of the same sections gives it.
C13_OrderIndependent ==
    Resolved =>
        \A other \in Orderings(Range(sections)) :
            LET r == ResolveInheritance(InitialProfiles(other))
            IN  /\ r.error = ""
                /\ \A i \in 1..Len(profiles) :
                      PropsIn(r.ps, profiles[i].name) = profiles[i].props

\* A file that lists the child C first, then P, then G, is resolved, in more
\* than one pass, and C has the repository file of its grandparent.
C13_Witness ==
    /\ Resolved
    /\ Len(sections) = 3
    /\ sections[1].name = "C" /\ sections[2].name = "P" /\ sections[3].name = "G"
    /\ PropsIn(profiles, "C")["env.RESTIC_REPOSITORY_FILE"] = "f1"
    /\ PropsIn(profiles, "C")["inherit"] = <<>>

(***************************************************************************)
(* A Profile object on its own: it is built with a schedule, then          *)
(* set_last_run(last_run) is called on it with a given time, as            *)
(* load_config does (line 301), and once more with a time shortly before   *)
(* the next_run the first call computed.  The object is cur["A"].          *)
(***************************************************************************)
\* The schedules of the object: none, daily, a weekday, several weekdays,
\* weekly, monthly, monthly on a Monday, every hour, an unknown word.
WeekdaySchedules == {<<TokWday(d), TokTime(9, 0)>> : d \in 0..6}

Schedules ==
    WeekdaySchedules \cup
    {<<>>,
     <<TokTime(9, 0)>>,
     <<TokWday(0), TokWday(3)>>,
     <<TokWeekly, TokTime(23, 59)>>,
     <<TokMonthly, TokTime(9, 0)>>,
     <<TokMonthly, TokWday(0), TokTime(9, 0)>>,
     <<TokTime(Star, 30)>>,
     <<TokOther, TokTime(0, 0)>>}

\* The months from_time is taken from: January 2024 to this month, counted
\* from January 2024 = 1.
MaxMonth == 14

\* The day index of the first day of month m.
RECURSIVE MonthStart(_)
MonthStart(m) == IF m = 1 THEN 0 ELSE MonthStart(m - 1) + MonthLengths[m - 1]

\* The times set_last_run is given: every hour of a day; around 09:00 on
\* every day of a week; and in every month the 1st just before, one minute
\* before and after 09:00, the 15th, and the last minute of the last day.
FromTimes ==
    {10 * Day + h * Hour + 10 * Minute + 7 : h \in 0..23}
    \cup {d * Day + 9 * Hour - x : d \in 14..20, x \in {61, 60, 0}}
    \cup UNION {{MonthStart(m) * Day + 9 * Hour - 60,
                 MonthStart(m) * Day + 9 * Hour - 59,
                 MonthStart(m) * Day + 9 * Hour + 30 * Minute,
                 (MonthStart(m) + 14) * Day + 12 * Hour,
                 MonthStart(m + 1) * Day - 30} : m \in 1..MaxMonth}

\* How long before next_run the second call's last_run lies, in seconds.
Epsilons == {1, 5, 60, 300}

\* Profile("A", {"schedule": ...}), lines 110-117 and 126-136: setting the
\* schedule computes next_run from the clock.
NewProfile(schedule) ==
    /\ pc = "boot"
    /\ IF find_next_run_raises(schedule, None, now)
       THEN cur' = cur /\ exc' = "ValueError" /\ pc' = "raised"
       ELSE /\ cur' = [cur EXCEPT !["A"] =
                        [schedule |-> schedule,
                         next_run |-> find_next_run(schedule, None, now),
                         last_run |-> None, req |-> FALSE]]
            /\ exc' = exc /\ pc' = "profile"
    /\ UNCHANGED <<now, reloads, clicks, disk, state, sections, profiles, inherits,
                   tasks, old, running, it_list, it_tasks, idx, next_task,
                   phase, proc, procs, ret, n_cmd, n_unlock, hist, rc>>
    /\ UNCHANGED <<override, args, stopping, reloaded>>

\* Profile.set_last_run(last_run), lines 177-179, at the position `at` of
\* the object's use: last_run is assigned, then next_run, unless
\* find_next_run raises.
SetLastRunAt(at, last_run) ==
    /\ pc = at
    /\ LET o == cur["A"]
       IN  IF find_next_run_raises(o.schedule, last_run, now)
           THEN /\ cur' = [cur EXCEPT !["A"].last_run = last_run]
                /\ exc' = "ValueError" /\ pc' = "raised"
           ELSE /\ cur' = [cur EXCEPT !["A"].last_run = last_run,
                                      !["A"].next_run =
                                          find_next_run(o.schedule, last_run, now)]
                /\ exc' = exc
                /\ pc' = IF at = "profile" THEN "scheduled" ELSE "rescheduled"
    /\ UNCHANGED <<now, reloads, clicks, disk, state, sections, profiles, inherits,
                   tasks, old, running, it_list, it_tasks, idx, next_task,
                   phase, proc, procs, ret, n_cmd, n_unlock, hist, rc>>
    /\ UNCHANGED <<override, args, stopping, reloaded>>

\* The first call, with a given time.
SetLastRun(last_run) == SetLastRunAt("profile", last_run)

\* The second call, eps seconds before the next_run of the first.
Reapply(eps) ==
    /\ cur["A"].next_run # None
    /\ SetLastRunAt("scheduled", cur["A"].next_run - eps)

NextProfile ==
    \/ \E schedule \in Schedules : NewProfile(schedule)
    \/ \E last_run \in FromTimes : SetLastRun(last_run)
    \/ \E eps \in Epsilons : Reapply(eps)

SpecProfile == Init /\ [][NextProfile]_vars

\* The Profile object, and the states in which its next_run is the result
\* of set_last_run(last_run): find_next_run(last_run) has returned.
Obj == cur["A"]
Applied == pc \in {"scheduled", "rescheduled"}

\* from_time + 1 minute, for the from_time the object was given.
Earliest == Obj.last_run + Minute

Min(S) == CHOOSE x \in S : \A y \in S : x <= y

\* C14: find_next_run returns, and returns null for an empty schedule;
\* otherwise its result is the timestamp of the first of the 32 days from
\* the day of from_time + 1 minute whose day of month is a candidate, whose
\* weekday is allowed or not required, and whose timestamp is at or after
\* from_time + 1 minute, and null when no day of the window matches; a
\* non-null result is later than from_time.
C14_FirstMatchingDay ==
    /\ pc # "raised"
    /\ Applied =>
        IF Obj.schedule = <<>> THEN Obj.next_run = None
        ELSE LET st == ParseSchedule(ParseInit, Obj.schedule, Earliest)
                 At(d) == Midnight(Earliest) + d * Day + st.tod
                 Matching == {d \in 0..(ScanDays - 1) :
                                /\ DayOfMonth(At(d)) \in st.m_days
                                /\ (st.w_days = {} \/ DayIndex(At(d)) % 7 \in st.w_days)
                                /\ At(d) >= Earliest}
             IN  IF Matching = {} THEN Obj.next_run = None
                 ELSE /\ Obj.next_run = At(Min(Matching))
                      /\ Obj.next_run > Obj.last_run

\* The next occurrence of weekday d at time of day tod, after (strict) or
\* at or after (not strict) the time t.
NextWeekdayAt(d, tod, t, strict) ==
    LET At(k) == Midnight(t) + k * Day + tod
        K == {k \in 0..8 : /\ DayIndex(At(k)) % 7 = d
                           /\ IF strict THEN At(k) > t ELSE At(k) >= t}
    IN  At(Min(K))

\* C15 as claimed: for a schedule of one weekday and a fixed time, the result
\* is the next occurrence of that weekday at that time strictly after
\* from_time + 1 minute.
C15_NextWeekdayStrictlyAfter ==
    (Applied /\ Obj.schedule \in WeekdaySchedules) =>
        Obj.next_run = NextWeekdayAt(Obj.schedule[1].a, 9 * Hour, Earliest, TRUE)

\* C15, amended: for a schedule of one weekday and a fixed time, the result
\* is the next occurrence of that weekday at that time at or after
\* from_time + 1 minute: an occurrence exactly one minute after from_time
\* is the result.
C15_NextWeekdayAtOrAfter ==
    (Applied /\ Obj.schedule \in WeekdaySchedules) =>
        /\ Obj.next_run = NextWeekdayAt(Obj.schedule[1].a, 9 * Hour, Earliest, FALSE)
        /\ Obj.next_run > Obj.last_run

\* "tue 09:00" from Tuesday 2024-01-16 at 08:59:00 has given that Tuesday
\* at 09:00:00, exactly one minute after from_time.
C15_Witness ==
    /\ pc = "scheduled"
    /\ Obj.schedule = <<TokWday(1), TokTime(9, 0)>>
    /\ Obj.last_run = 15 * Day + 9 * Hour - 60
    /\ Obj.next_run = 15 * Day + 9 * Hour

\* The schedule has no "*" hour.
FixedTime(schedule) ==
    \A i \in 1..Len(schedule) : ~(schedule[i].kind = "time" /\ schedule[i].a = Star)

\* C16 as claimed: when find_next_run(t) = R is not null, find_next_run
\* applied a few seconds before R returns R again.
C16_Idempotent ==
    [][\A eps \in {e \in Epsilons : e < 10} :
            Reapply(eps) => /\ pc' = "rescheduled"
                            /\ Obj'.next_run = Obj.next_run]_vars

\* C16, amended: for a schedule whose time is fixed or absent, when
\* find_next_run(t) = R is not null, find_next_run(R - eps) returns R again
\* for every eps of at least one minute with R - eps not before t; for an
\* eps of less than one minute it returns no R but a later time or null,
\* because from_time is advanced by one minute.
C16_IdempotentFromAMinute ==
    [][\A eps \in Epsilons :
            (Reapply(eps) /\ FixedTime(Obj.schedule)) =>
                /\ pc' = "rescheduled"
                /\ (eps >= Minute /\ Obj.next_run - eps >= Obj.last_run)
                        => Obj'.next_run = Obj.next_run
                /\ eps < Minute
                        => \/ Obj'.next_run = None
                           \/ Obj'.next_run > Obj.next_run]_vars

\* The daily schedule, applied again one minute before its result, has
\* given the same result.
C16_Witness ==
    /\ pc = "rescheduled"
    /\ Obj.schedule = <<TokTime(9, 0)>>
    /\ Obj.next_run = 11 * Day + 9 * Hour
    /\ Obj.last_run = Obj.next_run - Minute

\* C17: for "monthly HH:MM" the result is the earliest first day of a month
\* at HH:MM that is at or after from_time + 1 minute.
C17_Monthly ==
    (Applied /\ Obj.schedule = <<TokMonthly, TokTime(9, 0)>>) =>
        LET Firsts == {MonthStart(m) * Day + 9 * Hour : m \in 1..(MaxMonth + 3)}
        IN  Obj.next_run = Min({f \in Firsts : f >= Earliest})

\* From the 15th of February 2025, a month of 28 days, the result is the 1st
\* of March 2025 at 09:00.
C17_Witness ==
    /\ pc = "scheduled"
    /\ Obj.schedule = <<TokMonthly, TokTime(9, 0)>>
    /\ Obj.last_run = (MonthStart(14) + 14) * Day + 12 * Hour
    /\ Obj.next_run = (MonthStart(14) + 28) * Day + 9 * Hour
    /\ DayOfMonth(Obj.next_run) = 1

\* C18: for "*:MM" and every from_time, in every hour of the day,
\* find_next_run returns a timestamp at minute MM of the hour after the
\* current hour, the hour of from_time + 1 minute, at or after
\* from_time + 1 minute.
C18_NextHour ==
    /\ (pc = "raised") => Obj.schedule # <<TokTime(Star, 30)>>
    /\ (Applied /\ Obj.schedule = <<TokTime(Star, 30)>>) =>
            /\ MinuteOf(Obj.next_run) = 30
            /\ Obj.next_run % Minute = 0
            /\ HourOf(Obj.next_run) = (HourOf(Earliest) + 1) % 24
            /\ Obj.next_run >= Earliest
            /\ Obj.next_run < Earliest + 2 * Hour

\* The loop thread is inside run_task for the task n.
InRun(n) == pc \in RunPcs /\ RunningTask = n

\* C19: the persisted record of a task has started = 0 whenever the task is
\* not running: before the service has run anything, and again when
\* run_task has saved the completion of a run.
C19_StartedZeroWhenIdle ==
    /\ [](pc \in {"boot", "start"} =>
            \A n \in Names : disk[n].has => disk[n].started = 0)
    /\ [][RunTaskPersist =>
            \A n \in Names : (disk'[n].has /\ ~InRun(n)') => disk'[n].started = 0]_vars

\* A step of run_task, from its first save_state to its last.
RunTaskStep ==
    RunTaskStart \/ TryRunLaunch \/ TryRunWait \/ RunTaskFinish \/ RunTaskPersist

\* The last_run and next_run of the objects of task n, in the list of
\* self.tasks and in the list the loop iterates.
Times(objs, n) == <<objs[n].last_run, objs[n].next_run>>

BoolKeys == {"flag.no-cache"}
FlagListKeys == {"flag.option"}

\* "--" + key[5:] for the flag keys of the model, lines 201-208.
FlagNames ==
    ("flag.repo" :> "--repo") @@ ("flag.no-cache" :> "--no-cache")
        @@ ("flag.option" :> "--option")

\* Lines 204-206: a list-valued flag is repeated for each of its values.
RECURSIVE FlagValues(_, _)
FlagValues(name, values) ==
    IF values = <<>> THEN <<>>
    ELSE <<name, Head(values)>> \o FlagValues(name, Tail(values))

\* Lines 199-208 for one key of _properties: what it adds to args.
EmitFlag(p, key) ==
    IF key \notin DOMAIN FlagNames THEN <<>>
    ELSE IF key \in BoolKeys
        THEN (IF p.props[key] THEN <<FlagNames[key]>> ELSE <<>>)
    ELSE IF key \in FlagListKeys
        THEN FlagValues(FlagNames[key], p.props[key])
    ELSE <<FlagNames[key], p.props[key]>>

\* Lines 198-208: the loop over the keys of _properties, in dict order.
RECURSIVE EmitFlags(_, _)
EmitFlags(p, keys) ==
    IF keys = <<>> THEN <<>>
    ELSE EmitFlag(p, Head(keys)) \o EmitFlags(p, Tail(keys))

\* env[key[4:]] for the environment keys of the model, lines 199-200.
EnvNames == "env.RESTIC_REPOSITORY_FILE" :> "RESTIC_REPOSITORY_FILE"

\* Lines 189-200: the environment overlay.
EnvOf(p) ==
    [v \in {EnvNames[k] : k \in DOMAIN p.props \cap DOMAIN EnvNames} |->
        p.props[CHOOSE k \in DOMAIN p.props \cap DOMAIN EnvNames : EnvNames[k] = v]]

\* get_command that appends the override to the profile's own command.
get_command_appending(p, cmd_args) ==
    [env |-> EnvOf(p),
     args |-> <<Get(p, "restic-path")>> \o Get(p, "global-flags")
                \o EmitFlags(p, p.keys)
                \o (IF Get(p, "command") # <<>>
                    THEN Get(p, "command") \o Get(p, "args") \o Get(p, "flags")
                    ELSE <<>>)
                \o cmd_args]

\* Profile.get_command, lines 187-218.
get_command(p, cmd_args) ==
    [env |-> EnvOf(p),
     args |-> <<Get(p, "restic-path")>> \o Get(p, "global-flags")
                \o EmitFlags(p, p.keys)
                \o (IF cmd_args # <<>> THEN cmd_args
                    ELSE IF Get(p, "command") # <<>>
                    THEN Get(p, "command") \o Get(p, "args") \o Get(p, "flags")
                    ELSE <<>>)]

\* The properties a resolved profile may have.
\* A backup with global flags, a repository, args and flags.
BackupProps ==
    ("global-flags" :> <<"--insecure-tls">>) @@ ("flag.repo" :> "r1")
        @@ ("command" :> <<"backup">>) @@ ("args" :> <<"/home">>)
        @@ ("flags" :> <<"--one-file-system">>)

\* A restic of its own, a true boolean flag, a list flag and a repository.
OptionProps ==
    ("restic-path" :> "/opt/restic") @@ ("flag.no-cache" :> TRUE)
        @@ ("flag.option" :> <<"o1", "o2">>) @@ ("flag.repo" :> "r1")
        @@ ("command" :> <<"check">>)

\* Args and flags but no command; the repository is in a file.
NoCommandProps ==
    ("args" :> <<"/home">>) @@ ("flags" :> <<"--one-file-system">>)
        @@ ("env.RESTIC_REPOSITORY_FILE" :> "f1")

\* A false boolean flag.
QuietProps ==
    ("flag.no-cache" :> FALSE) @@ ("command" :> <<"forget">>)
        @@ ("args" :> <<"--keep-daily", "7">>)

\* No flag-namespaced property at all.
PlainProps ==
    ("global-flags" :> <<"--insecure-tls">>) @@ ("command" :> <<"backup">>)
        @@ ("args" :> <<"/home">>) @@ ("flags" :> <<"--one-file-system">>)

CommandProps == {BackupProps, OptionProps, NoCommandProps, QuietProps, PlainProps}

\* The cmd_args of a call: none, run_task's unlock (line 395), and a command
\* line given to CommandHandler.run (line 549).
Overrides == {<<>>, <<"unlock">>, <<"snapshots", "--json">>}

\* Profile("A", properties), lines 110-117: the keys are stored in the order
\* the section lists them.
NewCommandProfile(props, keys) ==
    /\ pc = "boot"
    /\ profiles' = <<[name |-> "A", props |-> props, keys |-> keys]>>
    /\ pc' = "profile"
    /\ UNCHANGED <<now, reloads, clicks, disk, state, sections, inherits, tasks,
                   cur, old, running, it_list, it_tasks, idx, next_task, phase,
                   proc, procs, ret, n_cmd, n_unlock, hist, exc, rc, override,
                   args, stopping, reloaded>>

\* Profile.run, line 221: env, args = self.get_command(cmd_args).
GetCommand(given) ==
    /\ pc = "profile"
    /\ override' = given
    /\ args' = get_command(profiles[1], given).args
    /\ pc' = "command"
    /\ UNCHANGED <<now, reloads, clicks, disk, state, sections, profiles, inherits,
                   tasks, cur, old, running, it_list, it_tasks, idx, next_task,
                   phase, proc, procs, ret, n_cmd, n_unlock, hist, exc, rc,
                   stopping, reloaded>>

NextCommand ==
    \/ \E props \in CommandProps :
            \E keys \in Orderings(DOMAIN props) : NewCommandProfile(props, keys)
    \/ \E given \in Overrides : GetCommand(given)

SpecCommand == Init /\ [][NextCommand]_vars

\* The profile get_command was called on, and what the claim speaks of.
Prof == profiles[1]
Built == pc = "command"
Exe == Get(Prof, "restic-path")
GlobalFlags == Get(Prof, "global-flags")
Own == Get(Prof, "command") \o Get(Prof, "args") \o Get(Prof, "flags")

\* The number of places of a word in a vector.
Count(seq, w) == Cardinality({i \in 1..Len(seq) : seq[i] = w})

\* The flag keys the profile defines.
FlagKeys == DOMAIN Prof.props \cap DOMAIN FlagNames

\* The values a flag key contributes, each after the flag's name.
ValuesOf(key) ==
    IF key \in BoolKeys THEN {}
    ELSE IF key \in FlagListKeys THEN Range(Prof.props[key])
    ELSE {Prof.props[key]}

\* How many times the name of a flag key is emitted.
Times21(key) ==
    IF key \in BoolKeys THEN (IF Prof.props[key] THEN 1 ELSE 0)
    ELSE IF key \in FlagListKeys THEN Len(Prof.props[key])
    ELSE 1

\* mid is the options of the profile's flag properties: every flag key's
\* name comes as often as it has values (once for a true boolean, never for
\* a false one), each value follows the name of its key, nothing else is
\* in mid, and the names come in the order of the keys.
IsOptions(mid) ==
    /\ \A key \in FlagKeys :
          /\ Count(mid, FlagNames[key]) = Times21(key)
          /\ \A v \in ValuesOf(key) :
                \E i \in 1..(Len(mid) - 1) : mid[i] = FlagNames[key] /\ mid[i + 1] = v
    /\ \A i \in 1..Len(mid) :
          \E key \in FlagKeys :
              \/ mid[i] = FlagNames[key]
              \/ i > 1 /\ mid[i - 1] = FlagNames[key] /\ mid[i] \in ValuesOf(key)
    /\ \A i, j \in 1..Len(mid) :
          \A a, b \in 1..Len(Prof.keys) :
              (/\ Prof.keys[a] \in FlagKeys /\ Prof.keys[b] \in FlagKeys
               /\ mid[i] = FlagNames[Prof.keys[a]]
               /\ mid[j] = FlagNames[Prof.keys[b]] /\ a < b) => i < j

\* C21: the argument vector is the executable path, the global flags, then
\* the override arguments when an override is given and otherwise the
\* profile's command, args and flags in that order; with a non-empty
\* override none of the profile's command, args and flags is in the vector.
C21_ArgumentVector ==
    Built =>
        /\ args = <<Exe>> \o GlobalFlags \o (IF override # <<>> THEN override ELSE Own)
        /\ override # <<>> => Range(Own) \cap Range(args) = {}

\* C21, amended: the argument vector is the executable path, the global
\* flags, the options of the profile's flag properties in property order,
\* then the override arguments when the override is non-empty, otherwise
\* the profile's command, args and flags in that order when the command is
\* non-empty, otherwise nothing; with a non-empty override none of the
\* profile's command, args and flags is in the vector.
C21_ArgumentVectorWithOptions ==
    Built =>
        LET rest == IF override # <<>> THEN override
                    ELSE IF Get(Prof, "command") # <<>> THEN Own ELSE <<>>
            n == Len(args)
            h == 1 + Len(GlobalFlags)
        IN  /\ n >= h + Len(rest)
            /\ SubSeq(args, 1, h) = <<Exe>> \o GlobalFlags
            /\ SubSeq(args, n - Len(rest) + 1, n) = rest
            /\ IsOptions(SubSeq(args, h + 1, n - Len(rest)))
            /\ override # <<>> => Range(Own) \cap Range(args) = {}

\* get_command was given an override on a profile that has a command, args,
\* flags, global flags and a repository flag, and the vector ends with the
\* override.
C21_Witness ==
    /\ Built
    /\ Prof.props = BackupProps
    /\ override = <<"unlock">>
    /\ args = <<"restic", "--insecure-tls", "--repo", "r1", "unlock">>

(***************************************************************************)
(* Termination of the scheduler loop.                                      *)
(***************************************************************************)
\* BaseHandler.stop, lines 323-325, when the signal arrives while the
\* thread of service_loop has not yet reached line 472: self.running is
\* still False, and the thread sets it afterwards.
StopEarly ==
    /\ pc = "start" /\ ~stopping
    /\ running' = FALSE /\ stopping' = TRUE
    /\ UNCHANGED <<sections, inherits, override, args, reloaded>>
    /\ UNCHANGED <<now, reloads, clicks, disk, state, profiles, tasks, cur, old, pc,
                   it_list, it_tasks, idx, next_task, phase, proc, procs,
                   ret, n_cmd, n_unlock, hist, exc, rc>>

\* The steps of the thread that runs service_loop, lines 469-502.
LoopThread ==
    \/ ServiceStart
    \/ LoopWhile
    \/ LoopFor
    \/ RunTaskStart
    \/ TryRunLaunch
    \/ TryRunWait
    \/ RunTaskFinish
    \/ RunTaskPersist
    \/ LoopCmp
    \/ LoopAfterFor
    \/ LoopExcept
    \/ LoopSleep
    \/ LoopQuit

\* The exit of a launched process.
ProcExits ==
    \E pid \in procs, code \in ExitCodes, last \in OutputKinds :
        ProcExit(pid, code, last)

\* The service starts without a status file.
InitStop == Init /\ disk = NoSections

NextStop == Next \/ StopEarly

\* The thread of service_loop is scheduled, time.sleep returns, and every
\* launched process exits.
SpecStop ==
    InitStop /\ [][NextStop]_vars /\ WF_vars(LoopThread) /\ WF_vars(ProcExits)

\* C22: once a stop signal has cleared the running flag, the scheduler loop
\* eventually ends and the process exits with code 0, the code quit is
\* called with; the loop does not iterate forever after a stop signal.
C22_StopTerminates == stopping ~> (pc = "exited" /\ rc = 0)

\* The tick of the scheduler loop has ended: the thread is at time.sleep,
\* line 501.
TickEnded == pc = "sleep"

\* C23: when a tick of the scheduler has ended, every task that has a
\* schedule has a next_run again, whatever happened in the run the tick
\* started: the process could not be launched, or it exited with code 1 and
\* no output line.
C23_Rescheduled ==
    TickEnded =>
        \A n \in Range(tasks) : cur[n].schedule # <<>> => cur[n].next_run # None

\* The next occurrence of the schedule of o after the time c has come.
Due(o, c) ==
    LET n == find_next_run(o.schedule, c, now)
    IN  n # None /\ n <= now

\* C24: when the configuration was reloaded while task T was running, the
\* scheduler does not start T again before the next scheduled occurrence
\* after the completion of that run (the last_run of T's RunRecord), unless
\* a run-now request asks for it.
C24_NoSecondRun ==
    [][(RunTaskStart /\ RunningTask = reloaded) =>
        LET o == TaskObj(RunningTask)
            c == state[RunningTask].last_run
        IN  \/ o.req
            \/ c = None
            \/ find_next_run_raises(o.schedule, c, now)
            \/ Due(o, c)]_vars

=============================================================================
